---- MODULE Spec2Model ----
(***************************************************************************)
(* Model of scripts/create_release.py: main() bumps the patch component of *)
(* aliases["latest"] in emscripten-releases-tags.json, creates a git       *)
(* branch, rewrites the registry file, runs update_bazel_workspace.sh and  *)
(* commits.                                                                *)
(*                                                                         *)
(* A Python str is a sequence of one-character strings, so that            *)
(* re.split, int() and str() are computed and not assumed.  A dict is a    *)
(* sequence of <<key, value>> pairs with distinct keys, in insertion       *)
(* order (json.load and OrderedDict both keep it).                         *)
(***************************************************************************)
EXTENDS FiniteSets, Integers, Sequences, TLC

\* The most entries the releases mapping of the registry on disk starts with.
MaxReleases == 2

----------------------------------------------------------------------------
\* Strings

Digits == <<"0", "1", "2", "3", "4", "5", "6", "7", "8", "9">>

IsDigit(c) == \E d \in 1..10 : Digits[d] = c

DigitVal(c) == (CHOOSE d \in 1..10 : Digits[d] = c) - 1

\* The delimiters of the character class [.-] on line 18.
IsDelimiter(c) == c \in {".", "-"}

\* re.split('[.-]', s): the tokens between delimiters, empty ones included.
RECURSIVE SplitFrom(_, _, _, _)
SplitFrom(s, i, cur, acc) ==
  IF i > Len(s) THEN Append(acc, cur)
  ELSE IF IsDelimiter(s[i]) THEN SplitFrom(s, i + 1, <<>>, Append(acc, cur))
  ELSE SplitFrom(s, i + 1, Append(cur, s[i]), acc)

Split(s) == SplitFrom(s, 1, <<>>, <<>>)

\* tokens[:3]
FirstThree(tokens) ==
  SubSeq(tokens, 1, IF Len(tokens) < 3 THEN Len(tokens) ELSE 3)

\* int(tok) returns a value iff tok is a non-empty run of digits (within the
\* alphabet of the model: digits, letters, '.', '-'); otherwise ValueError.
IsInt(tok) == Len(tok) > 0 /\ \A i \in 1..Len(tok) : IsDigit(tok[i])

RECURSIVE ToInt(_)
ToInt(tok) ==
  IF Len(tok) = 1 THEN DigitVal(tok[1])
  ELSE 10 * ToInt(SubSeq(tok, 1, Len(tok) - 1)) + DigitVal(tok[Len(tok)])

\* str(n) for n >= 0
RECURSIVE Str(_)
Str(n) ==
  IF n < 10 THEN <<Digits[n + 1]>>
  ELSE Str(n \div 10) \o <<Digits[(n % 10) + 1]>>

\* sep.join(parts)
RECURSIVE Join(_, _)
Join(sep, parts) ==
  IF Len(parts) = 0 THEN <<>>
  ELSE IF Len(parts) = 1 THEN parts[1]
  ELSE parts[1] \o sep \o Join(sep, Tail(parts))

----------------------------------------------------------------------------
\* version_to_list

\* version_to_list raises ValueError unless each of the first three tokens
\* is an integer.
Parses(version_string) ==
  \A i \in 1..Len(FirstThree(Split(version_string))) :
    IsInt(FirstThree(Split(version_string))[i])

version_to_list(version_string) ==
  LET tokens == FirstThree(Split(version_string))
  IN  [i \in 1..Len(tokens) |-> ToInt(tokens[i])]

\* Bump with the minor component incremented instead of the last one.
BumpMinor(list) == [list EXCEPT ![2] = @ + 1]

\* new_version[-1] += 1
Bump(list) == [list EXCEPT ![Len(list)] = @ + 1]

\* '.'.join(str(part) for part in new_version)
VersionString(list) ==
  Join(<<".">>, [i \in 1..Len(list) |-> Str(list[i])])

\* BranchName with the components joined by periods, as in the version
\* string.
BranchNameDotted(list) ==
  <<"v", "e", "r", "s", "i", "o", "n", "_">>
    \o Join(<<".">>, [i \in 1..Len(list) |-> Str(list[i])])

\* f"version_{'_'.join(str(part) for part in new_version)}"
BranchName(list) ==
  <<"v", "e", "r", "s", "i", "o", "n", "_">>
    \o Join(<<"_">>, [i \in 1..Len(list) |-> Str(list[i])])

\* Python's order on lists of integers: the first differing component
\* decides, and a proper prefix is smaller.
ListLess(a, b) ==
  LET m == IF Len(a) < Len(b) THEN Len(a) ELSE Len(b)
      diff == {i \in 1..m : a[i] # b[i]}
  IN  IF diff = {} THEN Len(a) < Len(b)
      ELSE LET f == CHOOSE i \in diff : \A j \in diff : i <= j
           IN  a[f] < b[f]

----------------------------------------------------------------------------
\* dict and list operations of lines 37-41

Keys(d) == {d[i][1] : i \in 1..Len(d)}

Get(d, k) == d[CHOOSE i \in 1..Len(d) : d[i][1] = k][2]

\* SetItem on a list of pairs: the pair is appended, whether or not the key
\* is there.
SetItemAppends(d, k, v) == Append(d, <<k, v>>)

\* d[k] = v: an existing key keeps its position and takes the new value, a
\* new key goes last.
SetItem(d, k, v) ==
  IF k \in Keys(d)
  THEN [i \in 1..Len(d) |-> IF d[i][1] = k THEN <<k, v>> ELSE d[i]]
  ELSE Append(d, <<k, v>>)

\* ord(c) of the characters of the model.
Ord(c) ==
  IF IsDigit(c) THEN 48 + DigitVal(c)
  ELSE IF c = "-" THEN 45
  ELSE IF c = "." THEN 46
  ELSE IF c = "c" THEN 99
  ELSE IF c = "r" THEN 114
  ELSE 120

\* SortKey with the key string itself as the key: the order of strings.
SortKeyString(pair) == [i \in 1..Len(pair[1]) |-> Ord(pair[1][i])]

\* The sort key of line 39.
SortKey(pair) == version_to_list(pair[1])

\* One step of a stable sort: x goes after every element whose key is not
\* greater than its own.
InsertSorted(sorted, x) ==
  LET p == Cardinality({i \in 1..Len(sorted) :
                          ~ListLess(SortKey(x), SortKey(sorted[i]))})
  IN  SubSeq(sorted, 1, p) \o <<x>> \o SubSeq(sorted, p + 1, Len(sorted))

\* releases.sort(key=...): list.sort is stable.
RECURSIVE SortFrom(_, _, _)
SortFrom(items, i, sorted) ==
  IF i > Len(items) THEN sorted
  ELSE SortFrom(items, i + 1, InsertSorted(sorted, items[i]))

Sort(items) == SortFrom(items, 1, <<>>)

\* reversed(releases)
Reversed(items) == [i \in 1..Len(items) |-> items[Len(items) + 1 - i]]

\* Lines 38-41: the re-sort step.
Resort(d) == Reversed(Sort(d))

\* The sort raises ValueError when a key does not parse.
Sortable(d) == \A i \in 1..Len(d) : Parses(d[i][1])

----------------------------------------------------------------------------
\* Inputs of one run

V_1_9_0 == <<"1", ".", "9", ".", "0">>
V_1_9_0_rc1 == <<"1", ".", "9", ".", "0", "-", "r", "c", "1">>
V_1_9_1 == <<"1", ".", "9", ".", "1">>
V_1_10_0 == <<"1", ".", "1", "0", ".", "0">>
V_1_9 == <<"1", ".", "9">>
V_1_09_0 == <<"1", ".", "0", "9", ".", "0">>
V_1_x_0 == <<"1", ".", "x", ".", "0">>

\* The version strings that key the releases of the registry on disk.
ReleaseKeys == {V_1_9_0, V_1_9_0_rc1, V_1_9_1, V_1_10_0, V_1_x_0}

\* The values aliases["latest"] starts with: the release keys (one of them
\* has a second component that is no integer), a string of two components
\* and one with a leading zero.
LatestValues == ReleaseKeys \cup {V_1_9, V_1_09_0}

\* Provenance identifiers of the releases already in the registry.
Hashes == {"abc", "def"}

\* sys.argv[1:]: no argument, or an explicit provenance identifier.
ArgLists == {<<>>, <<"abc">>}

\* What emsdk.get_emscripten_releases_tot() returns.
TipOfTree == "def"

Main == <<"m", "a", "i", "n">>

RegistryFile == "emscripten-releases-tags.json"
GeneratedFile == "bazel/revisions.bzl"
OtherFile == "README.md"

\* The releases mappings a registry on disk can hold: distinct keys, any
\* order.
ReleaseDicts ==
  UNION {{d \in [1..n -> ReleaseKeys \X Hashes] :
            \A i, j \in 1..n : i # j => d[i][1] # d[j][1]} : n \in 0..MaxReleases}

\* The aliases mappings over a releases mapping: "latest" alone, "latest"
\* and a second alias that names the last release, or the second alias
\* alone.
AliasDicts(d) ==
  {<< <<"latest", v>> >> : v \in LatestValues}
    \cup (IF Len(d) = 0 THEN {}
          ELSE {<< <<"latest", v>>, <<"lts", d[Len(d)][1]>> >> : v \in LatestValues}
                 \cup {<< <<"lts", d[Len(d)][1]>> >>})

\* The states of the working tree `git status --porcelain` reports on:
\* modified tracked files, staged files, untracked files.
TreeStates ==
  { [worktree |-> {}, index |-> {}, untracked |-> {}],
    [worktree |-> {OtherFile}, index |-> {}, untracked |-> {}],
    [worktree |-> {}, index |-> {OtherFile}, untracked |-> {}],
    [worktree |-> {}, index |-> {}, untracked |-> {OtherFile}] }

\* A branch left by an earlier run.
ExistingBranch ==
  <<"v", "e", "r", "s", "i", "o", "n", "_", "1", "_", "9", "_", "1">>

BranchSets == {{Main}, {Main, ExistingBranch}}

----------------------------------------------------------------------------
\* State

VARIABLES
  pc,            \* the next step of main
  args,          \* main's argument
  file,          \* emscripten-releases-tags.json on disk
  branches,      \* the branches of the repository
  head,          \* the branch checked out
  worktree,      \* tracked files modified and not staged
  index,         \* staged files
  untracked,     \* untracked files
  commits,       \* the commits made
  release_info,  \* main's release_info
  new_version,   \* main's new_version, the list of lines 27-28
  new_version_s, \* main's new_version, the string of line 34
  branch_name,   \* main's branch_name
  new_hash,      \* main's new_hash
  log,           \* the external operations invoked, in order
  result,        \* how the run ended
  failed_at,     \* the step that raised
  initial        \* the registry file, branches and tree the run started with

vars == <<pc, args, file, branches, head, worktree, index, untracked, commits,
          release_info, new_version, new_version_s, branch_name, new_hash,
          log, result, failed_at, initial>>

git == <<branches, head, worktree, index, untracked, commits>>
locals == <<release_info, new_version, new_version_s, branch_name, new_hash>>

Init ==
  /\ pc = "status"
  /\ args \in ArgLists
  /\ \E d \in ReleaseDicts : \E a \in AliasDicts(d) :
       file = [releases |-> d, aliases |-> a, complete |-> TRUE]
  /\ branches \in BranchSets
  /\ head = Main
  /\ \E t \in TreeStates :
       /\ worktree = t.worktree
       /\ index = t.index
       /\ untracked = t.untracked
  /\ commits = <<>>
  /\ release_info = [releases |-> <<>>, aliases |-> <<>>]
  /\ new_version = <<>>
  /\ new_version_s = <<>>
  /\ branch_name = <<>>
  /\ new_hash = ""
  /\ log = <<>>
  /\ result = "running"
  /\ failed_at = "none"
  /\ initial = [file |-> file, branches |-> branches, worktree |-> worktree,
                index |-> index, untracked |-> untracked]

\* An uncaught exception ends the run at step `step`.
Raise(step) ==
  /\ pc' = "end"
  /\ result' = "raised"
  /\ failed_at' = step

\* The run goes on to step `next`.
Goto(next) ==
  /\ pc' = next
  /\ UNCHANGED <<result, failed_at>>

----------------------------------------------------------------------------
\* Steps of main

\* IsDirty of `git status --porcelain -uno`: untracked files are not
\* reported.
IsDirtyTrackedOnly == worktree # {} \/ index # {}

\* `git status --porcelain` prints a line for every modified, staged or
\* untracked file; .strip() of no line is the empty string.
IsDirty == worktree # {} \/ index # {} \/ untracked # {}

\* Lines 22-24, the tree is not clean: sys.exit(1).
StatusDirty ==
  /\ pc = "status"
  /\ IsDirty
  /\ log' = Append(log, "status")
  /\ pc' = "end"
  /\ result' = "exit1"
  /\ UNCHANGED <<args, file, git, locals, failed_at, initial>>

\* Line 22, the tree is clean.
StatusClean ==
  /\ pc = "status"
  /\ ~IsDirty
  /\ log' = Append(log, "status")
  /\ Goto("load")
  /\ UNCHANGED <<args, file, git, locals, initial>>

\* Line 22, git itself fails: check_output raises.
StatusFails ==
  /\ pc = "status"
  /\ log' = Append(log, "status")
  /\ Raise("status")
  /\ UNCHANGED <<args, file, git, locals, initial>>

\* emsdk.load_releases_info(): the registry file, parsed.
load_releases_info == [releases |-> file.releases, aliases |-> file.aliases]

\* Lines 26-29: load the registry, parse and bump aliases["latest"], name
\* the branch.  A registry without "latest" raises KeyError, a "latest"
\* that does not parse raises ValueError.
Load ==
  /\ pc = "load"
  /\ log' = Append(log, "load")
  /\ release_info' = load_releases_info
  /\ IF "latest" \notin Keys(file.aliases)
       THEN /\ Raise("latest")
            /\ UNCHANGED <<new_version, branch_name>>
     ELSE IF ~Parses(Get(file.aliases, "latest"))
       THEN /\ Raise("parse")
            /\ UNCHANGED <<new_version, branch_name>>
     ELSE /\ new_version' = Bump(version_to_list(Get(file.aliases, "latest")))
          /\ branch_name' = BranchName(new_version')
          /\ Goto("checkout")
  /\ UNCHANGED <<args, file, git, new_version_s, new_hash, initial>>

\* Line 26, the registry cannot be read.
LoadFails ==
  /\ pc = "load"
  /\ log' = Append(log, "load")
  /\ Raise("load")
  /\ UNCHANGED <<args, file, git, locals, initial>>

\* Lines 32-34: `git checkout -b branch_name` creates the branch and
\* switches to it; then the version string is built.
Checkout ==
  /\ pc = "checkout"
  /\ branch_name \notin branches
  /\ log' = Append(log, "checkout")
  /\ branches' = branches \cup {branch_name}
  /\ head' = branch_name
  /\ new_version_s' = VersionString(new_version)
  /\ Goto("provenance")
  /\ UNCHANGED <<args, file, worktree, index, untracked, commits,
                 release_info, new_version, branch_name, new_hash, initial>>

\* Line 32, check_call raises: git refuses a branch name that exists, and
\* may fail for a reason of its own.
CheckoutFails ==
  /\ pc = "checkout"
  /\ log' = Append(log, "checkout")
  /\ Raise("checkout")
  /\ UNCHANGED <<args, file, git, locals, initial>>

\* ProvenanceId that ignores the argument.
ProvenanceIdFromResolver == TipOfTree

\* Line 35: args[0] if args else emsdk.get_emscripten_releases_tot()
ProvenanceId == IF Len(args) > 0 THEN args[1] ELSE TipOfTree

\* Promote without line 37: the alias is repointed and no entry is added.
PromoteWithoutInsert(info, version, hash) ==
  [releases |-> Resort(info.releases),
   aliases |-> SetItem(info.aliases, "latest", version)]

\* Lines 37-42 on release_info, given the provenance identifier.
Promote(info, version, hash) ==
  [releases |-> Resort(SetItem(info.releases, version, hash)),
   aliases |-> SetItem(info.aliases, "latest", version)]

\* Lines 35-42: the provenance identifier, the new entry, the re-sort and
\* the alias.  The sort raises ValueError on a key that does not parse,
\* after line 37 has changed release_info.
Provenance ==
  /\ pc = "provenance"
  /\ log' = IF Len(args) > 0 THEN log ELSE Append(log, "tot")
  /\ new_hash' = ProvenanceId
  /\ IF Sortable(SetItem(release_info.releases, new_version_s, new_hash'))
       THEN /\ release_info' = Promote(release_info, new_version_s, new_hash')
            /\ Goto("write")
       ELSE /\ release_info' =
                 [release_info EXCEPT
                    !.releases = SetItem(@, new_version_s, new_hash')]
            /\ Raise("sort")
  /\ UNCHANGED <<args, file, git, new_version, new_version_s, branch_name,
                 initial>>

\* Line 35, the tip-of-tree resolver fails.
ResolverFails ==
  /\ pc = "provenance"
  /\ Len(args) = 0
  /\ log' = Append(log, "tot")
  /\ Raise("tot")
  /\ UNCHANGED <<args, file, git, locals, initial>>

\* Write followed by the stage step, without the hook in between.
WriteSkipsHook ==
  /\ pc = "write"
  /\ log' = Append(log, "write")
  /\ file' = [releases |-> release_info.releases,
              aliases |-> release_info.aliases,
              complete |-> TRUE]
  /\ worktree' = worktree \cup {RegistryFile}
  /\ Goto("add")
  /\ UNCHANGED <<args, branches, head, index, untracked, commits, locals,
                 initial>>

\* Lines 44-46: the registry file is overwritten with release_info.
Write ==
  /\ pc = "write"
  /\ log' = Append(log, "write")
  /\ file' = [releases |-> release_info.releases,
              aliases |-> release_info.aliases,
              complete |-> TRUE]
  /\ worktree' = worktree \cup {RegistryFile}
  /\ Goto("hook")
  /\ UNCHANGED <<args, branches, head, index, untracked, commits, locals,
                 initial>>

\* Lines 44-46 raise: open() fails and the file is as it was, or a write
\* fails after open(..., 'w') has truncated it.
WriteFails ==
  /\ pc = "write"
  /\ log' = Append(log, "write")
  /\ \/ UNCHANGED <<file, worktree>>
     \/ /\ file' = [releases |-> <<>>, aliases |-> <<>>, complete |-> FALSE]
        /\ worktree' = worktree \cup {RegistryFile}
  /\ Raise("write")
  /\ UNCHANGED <<args, branches, head, index, untracked, commits, locals,
                 initial>>

\* Line 48: update_bazel_workspace.sh regenerates the derived file.
Hook ==
  /\ pc = "hook"
  /\ log' = Append(log, "hook")
  /\ worktree' = worktree \cup {GeneratedFile}
  /\ Goto("add")
  /\ UNCHANGED <<args, file, branches, head, index, untracked, commits,
                 locals, initial>>

\* HookFails with one retry of the hook before the error is raised.
HookFailsRetries ==
  /\ pc = "hook"
  /\ log' = log \o <<"hook", "hook">>
  /\ worktree' \in {worktree, worktree \cup {GeneratedFile}}
  /\ Raise("hook")
  /\ UNCHANGED <<args, file, branches, head, index, untracked, commits,
                 locals, initial>>

\* Line 48, the hook exits non-zero, before or after it wrote its file.
HookFails ==
  /\ pc = "hook"
  /\ log' = Append(log, "hook")
  /\ worktree' \in {worktree, worktree \cup {GeneratedFile}}
  /\ Raise("hook")
  /\ UNCHANGED <<args, file, branches, head, index, untracked, commits,
                 locals, initial>>

\* Line 51: `git add -u .` stages the modified tracked files.
Add ==
  /\ pc = "add"
  /\ log' = Append(log, "add")
  /\ index' = index \cup worktree
  /\ worktree' = {}
  /\ Goto("commit")
  /\ UNCHANGED <<args, file, branches, head, untracked, commits, locals,
                 initial>>

\* Line 51, git fails.
AddFails ==
  /\ pc = "add"
  /\ log' = Append(log, "add")
  /\ Raise("add")
  /\ UNCHANGED <<args, file, git, locals, initial>>

\* Lines 52-56: `git commit -m new_version` commits what is staged to the
\* branch checked out; main returns 0.
Commit ==
  /\ pc = "commit"
  /\ log' = Append(log, "commit")
  /\ commits' = Append(commits, [branch |-> head, message |-> new_version_s,
                                 paths |-> index, registry |-> file])
  /\ index' = {}
  /\ pc' = "end"
  /\ result' = "return0"
  /\ UNCHANGED <<args, file, branches, head, worktree, untracked, locals,
                 failed_at, initial>>

\* Line 52, git fails.
CommitFails ==
  /\ pc = "commit"
  /\ log' = Append(log, "commit")
  /\ Raise("commit")
  /\ UNCHANGED <<args, file, git, locals, initial>>

Next ==
  \/ StatusDirty
  \/ StatusClean
  \/ StatusFails
  \/ Load
  \/ LoadFails
  \/ Checkout
  \/ CheckoutFails
  \/ Provenance
  \/ ResolverFails
  \/ Write
  \/ WriteFails
  \/ Hook
  \/ HookFails
  \/ Add
  \/ AddFails
  \/ Commit
  \/ CommitFails

Spec == Init /\ [][Next]_vars

----------------------------------------------------------------------------
\* Vocabulary of the properties

InitiallyDirty ==
  initial.worktree # {} \/ initial.index # {} \/ initial.untracked # {}

Invoked(op) == \E i \in 1..Len(log) : log[i] = op

\* Lines 26-29 have run to their end.
Loaded == new_version # <<>>

\* Lines 44-46 have run to their end: the registry file is rewritten.
RegistryWritten == Invoked("write") /\ failed_at # "write"

InitialLatest == Get(initial.file.aliases, "latest")

\* The first three tokens of a string are integers.
HasThreeIntegers(version_string) ==
  /\ Len(Split(version_string)) >= 3
  /\ \A i \in 1..3 : IsInt(Split(version_string)[i])

\* Component-wise order of two lists of integers of at most three
\* components; a list that ends first is the smaller one.
Precedes(a, b) ==
  \E i \in 1..3 :
    /\ \A j \in 1..(i - 1) : j <= Len(a) /\ j <= Len(b) /\ a[j] = b[j]
    /\ i <= Len(b)
    /\ (i <= Len(a) => a[i] < b[i])

Values(d) == {d[i][2] : i \in 1..Len(d)}

----------------------------------------------------------------------------
\* Properties

\* C1: when the cleanliness query reports an uncommitted change (a
\* modified, staged or untracked file), main exits with code 1 and nothing
\* is mutated: the registry file, the branches, the branch checked out, the
\* index and the working tree are as they were, no later operation is
\* invoked and nothing is committed.
C1_DirtyTreeExitsUntouched ==
  (InitiallyDirty /\ pc # "status" /\ failed_at # "status") =>
    /\ result = "exit1"
    /\ file = initial.file
    /\ branches = initial.branches
    /\ head = Main
    /\ worktree = initial.worktree
    /\ index = initial.index
    /\ untracked = initial.untracked
    /\ commits = <<>>
    /\ log = <<"status">>

C1_Witness ==
  /\ result = "exit1"
  /\ initial.untracked # {}
  /\ Len(initial.file.releases) > 0

\* C2: when the new version is not yet a key of releases, a run that
\* returns 0 has written a registry whose releases are the previous
\* releases, each with its original identifier, plus one entry that maps
\* the new version to the argument if one was given and to the resolver's
\* value otherwise, and whose "latest" alias is the new version.
C2_PromotionAddsOneEntry ==
  (result = "return0" /\ new_version_s \notin Keys(initial.file.releases)) =>
    /\ Len(file.releases) = Len(initial.file.releases) + 1
    /\ Keys(file.releases) = Keys(initial.file.releases) \cup {new_version_s}
    /\ \A k \in Keys(initial.file.releases) :
         Get(file.releases, k) = Get(initial.file.releases, k)
    /\ Get(file.releases, new_version_s) =
         (IF args = <<>> THEN TipOfTree ELSE args[1])
    /\ Get(file.aliases, "latest") = new_version_s

C2_Witness ==
  /\ result = "return0"
  /\ args = <<"abc">>
  /\ initial.file.releases = << <<V_1_9_0, "def">> >>
  /\ file.releases = << <<V_1_9_1, "abc">>, <<V_1_9_0, "def">> >>
  /\ Get(file.aliases, "latest") = V_1_9_1

\* C3: when the first three tokens of aliases["latest"] are the integers
\* X, Y, Z, the new version is the list [X, Y, Z + 1] and the string
\* X.Y.(Z+1), whatever follows the third token.
C3_PatchGrowsByOne ==
  (Loaded /\ HasThreeIntegers(InitialLatest)) =>
    LET X == ToInt(Split(InitialLatest)[1])
        Y == ToInt(Split(InitialLatest)[2])
        Z == ToInt(Split(InitialLatest)[3])
    IN  /\ new_version = <<X, Y, Z + 1>>
        /\ Invoked("checkout") /\ failed_at # "checkout" =>
             new_version_s = Str(X) \o <<".">> \o Str(Y) \o <<".">> \o Str(Z + 1)

C3_Witness ==
  /\ Loaded
  /\ InitialLatest = V_1_9_0_rc1
  /\ new_version = <<1, 9, 1>>
  /\ new_version_s = V_1_9_1

\* C4: in a registry written by a promotion the entries of releases are in
\* descending order of their versions compared component by component as
\* integers: no entry is followed by one of a greater version.
C4_WrittenDescending ==
  RegistryWritten =>
    \A i, j \in 1..Len(file.releases) :
      i < j => ~Precedes(version_to_list(file.releases[i][1]),
                         version_to_list(file.releases[j][1]))

C4_Witness ==
  /\ RegistryWritten
  /\ Len(initial.file.releases) = 2
  /\ initial.file.releases[1][1] = V_1_9_0
  /\ initial.file.releases[2][1] = V_1_10_0
  /\ file.releases[1][1] = V_1_10_0
  /\ file.releases[Len(file.releases)][1] = V_1_9_0

\* C5: if every alias of the loaded registry names a key of releases, so
\* does every alias of the registry a promotion writes; the aliases other
\* than "latest" are unchanged and no release key is lost.
C5_AliasesStayValid ==
  (RegistryWritten /\ \A a \in Values(initial.file.aliases) :
                        a \in Keys(initial.file.releases)) =>
    /\ \A a \in Values(file.aliases) : a \in Keys(file.releases)
    /\ Keys(initial.file.releases) \subseteq Keys(file.releases)
    /\ Keys(file.aliases) = Keys(initial.file.aliases)
    /\ \A n \in Keys(file.aliases) \ {"latest"} :
         Get(file.aliases, n) = Get(initial.file.aliases, n)

C5_Witness ==
  /\ RegistryWritten
  /\ \A a \in Values(initial.file.aliases) : a \in Keys(initial.file.releases)
  /\ "lts" \in Keys(file.aliases)
  /\ Get(file.aliases, "latest") # Get(file.aliases, "lts")

\* The order of the external operations of a run; the resolver is invoked
\* only when no argument is given.
OperationOrder ==
  IF args = <<>>
  THEN <<"status", "load", "checkout", "tot", "write", "hook", "add", "commit">>
  ELSE <<"status", "load", "checkout", "write", "hook", "add", "commit">>

\* C6: the external operations of a run are invoked in one fixed order,
\* each after the one before it: cleanliness check, load, branch creation,
\* resolver, file rewrite, hook, stage, commit.  The commit comes after the
\* rewrite and the hook, carries the rewritten registry and the generated
\* file, and has the new version string as its message.
C6_OperationsInOrder ==
  /\ Len(log) <= Len(OperationOrder)
  /\ log = SubSeq(OperationOrder, 1, Len(log))
  /\ Len(commits) <= 1
  /\ commits # <<>> =>
       /\ RegistryWritten
       /\ Invoked("hook") /\ Invoked("add")
       /\ commits[1].message = new_version_s
       /\ commits[1].branch = branch_name
       /\ commits[1].paths = {RegistryFile, GeneratedFile}
       /\ commits[1].registry.releases = release_info.releases
       /\ commits[1].registry.aliases = release_info.aliases

C6_Witness ==
  /\ result = "return0"
  /\ log = <<"status", "load", "checkout", "tot", "write", "hook", "add", "commit">>
  /\ commits[1].message = new_version_s
  /\ commits[1].registry # initial.file

\* C7: the branch of new version [X, Y, Z] is named version_X_Y_Z; when a
\* branch of that name exists the run fails at the branch creation, and
\* then the registry file and the branches are as they were, the resolver
\* and the hook are not invoked and nothing is committed.
C7_BranchNameAndExistingBranch ==
  /\ (Loaded /\ Len(new_version) = 3) =>
       branch_name = <<"v", "e", "r", "s", "i", "o", "n", "_">>
                       \o Str(new_version[1]) \o <<"_">>
                       \o Str(new_version[2]) \o <<"_">>
                       \o Str(new_version[3])
  /\ (Loaded /\ branch_name \in initial.branches /\ Invoked("checkout")) =>
       /\ result = "raised"
       /\ failed_at = "checkout"
       /\ file = initial.file
       /\ branches = initial.branches
       /\ head = Main
       /\ ~Invoked("tot") /\ ~Invoked("write") /\ ~Invoked("hook")
       /\ ~Invoked("add") /\ ~Invoked("commit")
       /\ commits = <<>>

C7_Witness ==
  /\ failed_at = "checkout"
  /\ new_version = <<1, 9, 1>>
  /\ branch_name = ExistingBranch
  /\ branch_name \in initial.branches

\* C8: the re-sort step applied to the releases it produced gives the same
\* sequence of entries.
C8_ResortIdempotent ==
  (Invoked("checkout") /\ pc \in {"write", "hook", "add", "commit"}) =>
    Resort(release_info.releases) = release_info.releases

\* The external operation at which a step fails.
FailedOperation ==
  IF failed_at \in {"latest", "parse"} THEN "load"
  ELSE IF failed_at = "sort" THEN (IF args = <<>> THEN "tot" ELSE "checkout")
  ELSE failed_at

\* C9: no retry and no rollback.  No operation is invoked twice; a run
\* that raised has stopped at the failing operation and takes no further
\* step; what the earlier steps did stays: after a failure past the branch
\* creation the new branch exists and is checked out, after a failure past
\* the rewrite the file holds the new registry, and nothing is committed.
C9_NoRetryNoRollback ==
  /\ \A i, j \in 1..Len(log) : i # j => log[i] # log[j]
  /\ result = "raised" =>
       /\ pc = "end"
       /\ ~ENABLED Next
       /\ log[Len(log)] = FailedOperation
       /\ commits = <<>>
  /\ failed_at \in {"tot", "sort", "write", "hook", "add", "commit"} =>
       /\ branch_name \notin initial.branches
       /\ branches = initial.branches \cup {branch_name}
       /\ head = branch_name
  /\ failed_at \in {"hook", "add", "commit"} =>
       /\ file = [releases |-> release_info.releases,
                  aliases |-> release_info.aliases, complete |-> TRUE]
       /\ file # initial.file
       /\ Get(file.aliases, "latest") = new_version_s
  /\ failed_at = "add" => worktree = {RegistryFile, GeneratedFile}
  /\ failed_at = "commit" => index = {RegistryFile, GeneratedFile}

C9_Witness ==
  /\ failed_at = "hook"
  /\ log = <<"status", "load", "checkout", "write", "hook">>
  /\ branch_name \in branches
  /\ file # initial.file
  /\ commits = <<>>

\* The identifier the new version had in the registry the run started
\* with.
OldHash == Get(initial.file.releases, new_version_s)

\* The new version is a key of the registry the run started with, and the
\* run has rewritten the file.
Collision ==
  RegistryWritten /\ new_version_s \in Keys(initial.file.releases)

\* C10 as stated: when the new version is already a key of releases, the
\* promotion replaces its identifier, the number of entries stays the
\* same, and the old identifier of that version is no longer present in
\* the written registry.
C10_OldHashGone ==
  Collision =>
    /\ Get(file.releases, new_version_s) = new_hash
    /\ Len(file.releases) = Len(initial.file.releases)
    /\ OldHash \notin Values(file.releases)

\* C10 as amended: when the new version is already a key of releases, the
\* promotion replaces its identifier, the keys and the number of entries
\* stay the same, and the old identifier of that version is no longer
\* present in the written registry unless it equals the new identifier or
\* another release carries it too.
C10_OverwritesExistingKey ==
  Collision =>
    /\ Get(file.releases, new_version_s) =
         (IF args = <<>> THEN TipOfTree ELSE args[1])
    /\ Len(file.releases) = Len(initial.file.releases)
    /\ Keys(file.releases) = Keys(initial.file.releases)
    /\ \A k \in Keys(file.releases) \ {new_version_s} :
         Get(file.releases, k) = Get(initial.file.releases, k)
    /\ (/\ OldHash # new_hash
        /\ \A k \in Keys(initial.file.releases) \ {new_version_s} :
             Get(initial.file.releases, k) # OldHash)
         => OldHash \notin Values(file.releases)

C10_Witness ==
  /\ Collision
  /\ result = "return0"
  /\ OldHash = "def"
  /\ new_hash = "abc"
  /\ Len(file.releases) = 2
  /\ "def" \notin Values(file.releases)

====
